---- MODULE Spec2Model ----
(***************************************************************************)
(* Order-matching engine (efei36/order-matching-engine): the Orderbook of  *)
(* src/orderbook.{h,cpp} with the Order of src/order.{h,cpp}.              *)
(*                                                                         *)
(* The two std::priority_queue members are modelled as sets of orders: the *)
(* container's contract is that top() is an element no other element       *)
(* outranks under the comparator; which one of several equally ranked      *)
(* elements it is, is left to the heap and is a nondeterministic choice    *)
(* here.  Prices are floats in the program; only their comparisons are     *)
(* used, and the model draws them from a small range of integers.  The     *)
(* single-precision arithmetic of the pro-rata proportion is modelled bit  *)
(* for bit (24-bit significand, round to nearest even).                    *)
(*                                                                         *)
(* A matching pass is a loop; each loop iteration is one step of the       *)
(* model, with pc the position of the (single) thread of control.         *)
(***************************************************************************)
EXTENDS Integers, Sequences, FiniteSets, TLC

(* ------------------------------ bounds --------------------------------- *)
MaxOrders == 3
MaxPrice == 2
MaxTime == 2
MaxQty == 3
MaxAllocQty == 14
MaxLevelSells == 4
LargeBuyQty == 12899553
LargeSellQty1 == 4242314
LargeSellQty2 == 8666543

VARIABLES
    buyOrders,      \* *m_buyOrders:  the resident buy orders
    sellOrders,     \* *m_sellOrders: the resident sell orders
    m_orderHistory, \* the ledger: sequence of ProcessedOrder, oldest first
    pc,             \* position of the thread of control
    call,           \* the operation called last, its argument / the book it found
    admitted,       \* number of records the feed has passed to addOrder
    printed,        \* what the last print call wrote, in the order written
    bestBuy,        \* matchOrdersProRata: local bestBuy
    buyAmount,      \* matchOrdersProRata: local buyAmount
    matchingOrders, \* matchOrdersProRata: local vector matchingOrders
    curIndex,       \* matchOrdersProRata: local curIndex (0-based)
    indexNextPriceLevel,                 \* local indexNextPriceLevel (0-based)
    buyOrdersStillRemaining,             \* local flag
    curTotalSellAmount,                  \* local curTotalSellAmount
    buyAmountBeforeFillingCurPriceLevel, \* local of the same name
    i,              \* index of the fill loop of matchOrdersProRata (0-based)
    oobRead         \* the pass has read matchingOrders[numMatchingSells]

book == <<buyOrders, sellOrders, m_orderHistory>>
locals == <<bestBuy, buyAmount, matchingOrders, curIndex, indexNextPriceLevel,
            buyOrdersStillRemaining, curTotalSellAmount,
            buyAmountBeforeFillingCurPriceLevel, i>>
vars == <<buyOrders, sellOrders, m_orderHistory, pc, call, admitted, printed,
          bestBuy, buyAmount, matchingOrders, curIndex, indexNextPriceLevel,
          buyOrdersStillRemaining, curTotalSellAmount,
          buyAmountBeforeFillingCurPriceLevel, i, oobRead>>

(* ------------------------------ Order ---------------------------------- *)
\* m_orderID is an unsigned 64-bit value, kept as its two 32-bit words.
Order(idHi, idLo, isBuy, price, time, amount) ==
    [orderID |-> <<idHi, idLo>>, isBuy |-> isBuy, price |-> price,
     time |-> time, amount |-> amount]

NoOrder == Order(0, 0, FALSE, 0, 0, 0)

checkIsBuy(o) == o.isBuy
\* int getID(): the 64-bit m_orderID converted to int keeps the low word.
getID(o) == o.orderID[2]
getPrice(o) == o.price
getTime(o) == o.time
getAmount(o) == o.amount
setAmount(o, newAmount) == [o EXCEPT !.amount = newAmount]

ProcessedOrder(buyNum, sellNum, fillAmt) ==
    [buyID |-> buyNum, sellID |-> sellNum, fillAmount |-> fillAmt]

\* m_orderHistory.emplace with the record put at the front of the queue.
emplaceFront(hist, rec) == <<rec>> \o hist

\* m_orderHistory.emplace(...): std::queue adds the record at the back.
emplace(hist, rec) == Append(hist, rec)

(* --------------------------- comparators ------------------------------- *)
\* prioritizeMax with the tie-break on time reversed.
prioritizeMaxLatestFirst(order1, order2) ==
    IF order1.price < order2.price THEN TRUE
    ELSE IF order1.price > order2.price THEN FALSE
    ELSE order1.time < order2.time

\* TRUE when order1 ranks below order2 in the buy queue.
prioritizeMax(order1, order2) ==
    IF getPrice(order1) < getPrice(order2) THEN TRUE
    ELSE IF getPrice(order1) > getPrice(order2) THEN FALSE
    ELSE getTime(order1) > getTime(order2)

\* prioritizeMin without the tie-break on time.
prioritizeMinPriceOnly(order1, order2) == order1.price > order2.price

\* TRUE when order1 ranks below order2 in the sell queue.
prioritizeMin(order1, order2) ==
    IF getPrice(order1) > getPrice(order2) THEN TRUE
    ELSE IF getPrice(order1) < getPrice(order2) THEN FALSE
    ELSE getTime(order1) > getTime(order2)

\* The orders top() may return: those that rank below no other element.
buyTop(q) == {o \in q : \A x \in q : ~prioritizeMax(o, x)}
sellTop(q) == {o \in q : \A x \in q : ~prioritizeMin(o, x)}

(* ---------------------------- arithmetic ------------------------------- *)
Min2(a, b) == IF a < b THEN a ELSE b

\* num / den rounded to the nearest integer, ties to even (num >= 0, den > 0).
RoundHalfEven(num, den) ==
    LET q == num \div den
        r == num % den
    IN  IF 2 * r < den THEN q
        ELSE IF 2 * r > den THEN q + 1
        ELSE IF q % 2 = 0 THEN q ELSE q + 1

\* A positive float is [m, k]: the value m / 2^k with 2^23 <= m < 2^24;
\* zero is [m |-> 0, k |-> 0].
FloatZero == [m |-> 0, k |-> 0]

\* The significand m (rounded, so possibly 2^24) at exponent k, normalized.
FloatOf(m, k) == IF m = 2^24 THEN [m |-> 2^23, k |-> k - 1] ELSE [m |-> m, k |-> k]

RECURSIVE DivExp(_, _, _)
\* The least k with num * 2^k / den >= 2^23 (num / den < 2^23).
DivExp(num, den, k) ==
    IF num * 2^k >= 2^23 * den THEN k ELSE DivExp(num, den, k + 1)

\* What the rounding to nearest even adds to the significand sig when rem
\* out of unit is cut off behind it.
RoundBit(rem, unit, sig) ==
    IF 2 * rem > unit THEN 1 ELSE IF 2 * rem < unit THEN 0 ELSE sig % 2

RECURSIVE ScaleUp(_, _, _)
\* The least a with x * 2^a >= y.
ScaleUp(x, y, a) == IF x * 2^a >= y THEN a ELSE ScaleUp(x, y, a + 1)

RECURSIVE ScaleDown(_, _, _)
\* The greatest b with y * 2^b <= x (y <= x).
ScaleDown(x, y, b) == IF y * 2^(b + 1) > x THEN b ELSE ScaleDown(x, y, b + 1)

RECURSIVE DivBits(_, _, _, _)
\* Long division: bits more bits of the quotient q, with remainder r < den.
DivBits(q, r, den, bits) ==
    IF bits = 0 THEN [q |-> q, r |-> r]
    ELSE IF 2 * r >= den THEN DivBits(2 * q + 1, 2 * r - den, den, bits - 1)
    ELSE DivBits(2 * q, 2 * r, den, bits - 1)

\* The quotient num / scaled, which lies in [1, 2), rounded to 24 significant
\* bits; k is the exponent of its last bit.
FloatQuotient(num, scaled, k) ==
    CHOOSE f \in {FloatOf(d.q + RoundBit(d.r, scaled, d.q), k) :
                    d \in {DivBits(1, num - scaled, scaled, 23)}} : TRUE

\* (float)num / (float)den by long division, for 0 < num, den < 2^24 of any
\* size (the products of the direct computation would not fit 32 bits).
FloatDivLong(num, den) ==
    IF num < den
    THEN CHOOSE f \in {FloatQuotient(num * 2^a, den, 23 + a) :
                         a \in {ScaleUp(num, den, 0)}} : TRUE
    ELSE CHOOSE f \in {FloatQuotient(num, den * 2^b, 23 - b) :
                         b \in {ScaleDown(num, den, 0)}} : TRUE

\* (float)num / (float)den for 0 <= num, 0 < den, both below 2^24 (exact as
\* floats): the quotient rounded to 24 significant bits.
FloatDiv(num, den) ==
    IF num = 0 THEN FloatZero
    ELSE IF num < 2^6 /\ den < 2^6
    THEN CHOOSE f \in {FloatOf(RoundHalfEven(num * 2^k, den), k) :
                          k \in {DivExp(num, den, 0)}} : TRUE
    ELSE FloatDivLong(num, den)

RECURSIVE MulShift(_, _)
\* The least r with p / 2^r < 2^24.
MulShift(p, r) == IF p < 2^24 * 2^r THEN r ELSE MulShift(p, r + 1)

\* The exact product p / 2^k rounded to 24 significant bits.
FloatRound(p, k) ==
    CHOOSE f \in {FloatOf(RoundHalfEven(p, 2^r), k - r) : r \in {MulShift(p, 0)}} : TRUE

RECURSIVE NormUp(_, _)
\* The least j with n * 2^j >= 2^23.
NormUp(n, j) == IF n * 2^j >= 2^23 THEN j ELSE NormUp(n, j + 1)

\* (float)n for an int 0 < n < 2^24: exact.
IntToFloat(n) == CHOOSE f \in {[m |-> n * 2^j, k |-> j] : j \in {NormUp(n, 0)}} : TRUE

\* f * g in single precision: the 48-bit product of the significands, built
\* from 12-bit halves, rounded to 24 significant bits.
FloatMul(f, g) ==
    LET a1 == f.m \div 2^12
        b1 == f.m % 2^12
        a2 == g.m \div 2^12
        b2 == g.m % 2^12
        mid == a1 * b2 + a2 * b1
        lo == (mid % 2^12) * 2^12 + b1 * b2
        hi == a1 * a2 + (mid \div 2^12) + (lo \div 2^24)
        lo24 == lo % 2^24
        sig == 2 * hi + (lo24 \div 2^23)
    IN  IF hi >= 2^23
        THEN FloatOf(hi + RoundBit(lo24, 2^24, hi), f.k + g.k - 24)
        ELSE FloatOf(sig + RoundBit(lo24 % 2^23, 2^23, sig), f.k + g.k - 23)

\* n * f in single precision: the int n (0 <= n < 2^24) converts exactly.
FloatMulInt(n, f) ==
    IF n = 0 \/ f.m = 0 THEN FloatZero
    ELSE IF n < 2^6 THEN FloatRound(n * f.m, f.k)
    ELSE CHOOSE p \in {FloatMul(x, f) : x \in {IntToFloat(n)}} : TRUE

\* (int)std::ceil(f)
CeilToInt(f) ==
    IF f.m = 0 THEN 0
    ELSE IF f.k >= 24 THEN 1
    ELSE IF f.k >= 0 THEN (f.m + 2^(f.k) - 1) \div 2^(f.k)
    ELSE f.m * 2^(0 - f.k)

(* ----------------------- Orderbook: addOrder --------------------------- *)
\* addOrder with the test of the side inverted.
addOrderWrongSide(buys, sells, newOrder) ==
    IF newOrder.isBuy
    THEN [buys |-> buys, sells |-> sells \cup {newOrder}]
    ELSE [buys |-> buys \cup {newOrder}, sells |-> sells]

\* The two queues after addOrder(newOrder).
addOrder(buys, sells, newOrder) ==
    IF checkIsBuy(newOrder)
    THEN [buys |-> buys \cup {newOrder}, sells |-> sells]
    ELSE [buys |-> buys, sells |-> sells \cup {newOrder}]

(* -------------------- Orderbook: matchOrdersFIFO ----------------------- *)
\* The test of the prices the wrong way round.
fifoCrossesReversed(aBuy, aSell) == aBuy.price <= aSell.price

\* The test "buy and sell price levels are compatible".
fifoCrosses(aBuy, aSell) == getPrice(aBuy) >= getPrice(aSell)

\* The crossing branch with >= for > in its first test: a buy filled
\* completely by a sell of its size is pushed back.
fifoFillPushesFilledBuy(aBuy, aSell) ==
    IF aBuy.amount >= aSell.amount
    THEN [pushBuy |-> {[aBuy EXCEPT !.amount = aBuy.amount - aSell.amount]},
          pushSell |-> {}, amountFilled |-> aSell.amount]
    ELSE [pushBuy |-> {}, pushSell |-> {[aSell EXCEPT !.amount = aSell.amount - aBuy.amount]},
          amountFilled |-> aBuy.amount]

\* The crossing branch: what is pushed back and the amount recorded.
fifoFill(aBuy, aSell) ==
    LET buyAmt == getAmount(aBuy)
        sellAmt == getAmount(aSell)
    IN  IF buyAmt > sellAmt
        THEN [pushBuy |-> {setAmount(aBuy, buyAmt - sellAmt)}, pushSell |-> {},
              amountFilled |-> sellAmt]
        ELSE IF buyAmt < sellAmt
        THEN [pushBuy |-> {}, pushSell |-> {setAmount(aSell, sellAmt - buyAmt)},
              amountFilled |-> buyAmt]
        ELSE [pushBuy |-> {}, pushSell |-> {}, amountFilled |-> buyAmt]

\* The no-cross branch of matchOrdersFIFO pushing back the sell only.
fifoNoCrossDropsBuy(aBuy, aSell) == [pushBuy |-> {}, pushSell |-> {aSell}]

\* The non-crossing branch without the push of the sell.
fifoNoCrossDropsSell(aBuy, aSell) == [pushBuy |-> {aBuy}, pushSell |-> {}]

\* The non-crossing branch: both popped orders are pushed back.
fifoNoCross(aBuy, aSell) == [pushBuy |-> {aBuy}, pushSell |-> {aSell}]

(* ------------------- Orderbook: matchOrdersProRata --------------------- *)
numMatchingSells == Len(matchingOrders)

\* The test that ends the pass with <= for <.
proRataStopsOnEqual(aBuy, aSell) == aBuy.price <= aSell.price

\* The test that ends the pass: best buy below best sell.
proRataStops(aBuy, aSell) == getPrice(aBuy) < getPrice(aSell)

\* The test of the collecting loop with > for >=.
proRataMatchesStrict(aBuy, aSell) == aBuy.price > aSell.price

\* The test of the loop that collects the matching sells.
proRataMatches(aBuy, aSell) == getPrice(aBuy) >= getPrice(aSell)

\* Values the read of matchingOrders[numMatchingSells] (one past the end of
\* the vector: undefined behaviour) may produce as a price.
GarbagePrices == 0 .. MaxPrice + 1

RECURSIVE scanNextPriceLevelGE(_, _, _, _, _)
\* The scan with >= for > in its test: it stops at a sell of the same price.
scanNextPriceLevelGE(orders, cur, idx, j, garbage) ==
    IF j >= Len(orders) THEN [idx |-> idx, oob |-> FALSE]
    ELSE LET nxt == idx + 1
             past == nxt >= Len(orders)
             price == IF past THEN garbage ELSE orders[nxt + 1].price
         IN  IF price >= orders[cur + 1].price
             THEN [idx |-> nxt, oob |-> past]
             ELSE LET rest == scanNextPriceLevelGE(orders, cur, nxt, j + 1, garbage)
                  IN  [idx |-> rest.idx, oob |-> past \/ rest.oob]

RECURSIVE scanNextPriceLevel(_, _, _, _, _)
\* The for loop "finding the index of the earliest sell order at the next
\* price level", from loop index j with indexNextPriceLevel = idx; garbage is
\* what a read past the end returns.  Indices are the program's (0-based).
scanNextPriceLevel(orders, cur, idx, j, garbage) ==
    IF j >= Len(orders) THEN [idx |-> idx, oob |-> FALSE]
    ELSE LET nxt == idx + 1
             past == nxt >= Len(orders)
             price == IF past THEN garbage ELSE getPrice(orders[nxt + 1])
         IN  IF price > getPrice(orders[cur + 1])
             THEN [idx |-> nxt, oob |-> past]
             ELSE LET rest == scanNextPriceLevel(orders, cur, nxt, j + 1, garbage)
                  IN  [idx |-> rest.idx, oob |-> past \/ rest.oob]

RECURSIVE levelTotal(_, _, _)
\* The for loop summing getAmount() over [from, to) (0-based).
levelTotal(orders, from, to) ==
    IF from >= to THEN 0
    ELSE getAmount(orders[from + 1]) + levelTotal(orders, from + 1, to)

\* The entitlement without std::ceil: the cast to int truncates.
entitlementTruncated(levelBuy, sellAmt, total) ==
    CHOOSE e \in {(IF product.m = 0 THEN 0 ELSE product.m \div 2^(product.k)) :
                    product \in {FloatMulInt(levelBuy, proportion) :
                                   proportion \in {FloatDiv(sellAmt, total)}}} : TRUE

\* (int)std::ceil(buyAmountBeforeFillingCurPriceLevel * proportion), with
\* proportion = (float)sellAmount / (float)curTotalSellAmount.
entitlement(levelBuy, sellAmt, total) ==
    CHOOSE e \in {CeilToInt(product) :
                    product \in {FloatMulInt(levelBuy, proportion) :
                                   proportion \in {FloatDiv(sellAmt, total)}}} : TRUE

\* std::min(std::min(buyAmount, sellAmount), entitlement)
amountFilledOf(buyAmt, sellAmt, levelBuy, total) ==
    Min2(Min2(buyAmt, sellAmt), entitlement(levelBuy, sellAmt, total))

\* The re-adding loop run over the price levels processed only: the sells
\* from curIndex on are not pushed.
readdSellsProcessedOnly(orders) ==
    {orders[n] : n \in {x \in 1 .. Min2(curIndex, Len(orders)) : orders[x].amount > 0}}

\* What the loop "re-adding any partially filled sell orders" pushes.
readdSells(orders) ==
    {orders[n] : n \in {x \in 1 .. Len(orders) : getAmount(orders[x]) > 0}}

\* The push of the buy without the setAmount before it.
readdBuyStale(aBuy, buyAmt) == IF buyAmt > 0 THEN {aBuy} ELSE {}

\* The push of the buy without the test buyAmount > 0.
readdBuyAlways(aBuy, buyAmt) == {[aBuy EXCEPT !.amount = buyAmt]}

\* What is pushed back on the buy side after the levels.
readdBuy(aBuy, buyAmt) == IF buyAmt > 0 THEN {setAmount(aBuy, buyAmt)} ELSE {}

(* ------------------- the passes as functions --------------------------- *)
\* The result of a pass: the two queues and the ledger it leaves.
PassResult(buys, sells, hist) == [buys |-> buys, sells |-> sells, hist |-> hist]

RECURSIVE matchOrdersFIFO(_, _, _)
\* The results matchOrdersFIFO can leave of the given queues and ledger:
\* one for every way top() can settle equally ranked orders.
matchOrdersFIFO(buys, sells, hist) ==
    IF buys = {} \/ sells = {} THEN {PassResult(buys, sells, hist)}
    ELSE UNION {
           IF fifoCrosses(p[1], p[2])
           THEN LET f == fifoFill(p[1], p[2])
                IN  matchOrdersFIFO((buys \ {p[1]}) \cup f.pushBuy,
                                    (sells \ {p[2]}) \cup f.pushSell,
                                    emplace(hist, ProcessedOrder(getID(p[1]), getID(p[2]),
                                                                 f.amountFilled)))
           ELSE LET f == fifoNoCross(p[1], p[2])
                IN  {PassResult((buys \ {p[1]}) \cup f.pushBuy,
                                (sells \ {p[2]}) \cup f.pushSell, hist)}
           : p \in buyTop(buys) \X sellTop(sells)}

RECURSIVE proRataCollect(_, _, _)
\* The loop collecting the matching sells: the vector and the sell queue it
\* can leave, acc being the vector so far.
proRataCollect(aBuy, sells, acc) ==
    IF sells = {} THEN {[orders |-> acc, sells |-> sells]}
    ELSE UNION {
           IF proRataMatches(aBuy, s)
           THEN proRataCollect(aBuy, sells \ {s}, Append(acc, s))
           ELSE {[orders |-> acc, sells |-> sells]}
           : s \in sellTop(sells)}

RECURSIVE proRataFillLoop(_, _, _, _, _, _, _, _)
\* The fill loop of one price level from index k (0-based) up to idxNext.
proRataFillLoop(aBuy, orders, buyAmt, levelBuy, total, k, idxNext, hist) ==
    IF k >= idxNext
    THEN [orders |-> orders, buyAmt |-> buyAmt, hist |-> hist, remaining |-> TRUE]
    ELSE IF k >= Len(orders)
    THEN [orders |-> orders, buyAmt |-> buyAmt, hist |-> hist, remaining |-> FALSE]
    ELSE LET sellAmt == getAmount(orders[k + 1])
             amountFilled == amountFilledOf(buyAmt, sellAmt, levelBuy, total)
             filled == [orders EXCEPT ![k + 1] = setAmount(@, sellAmt - amountFilled)]
             rec == ProcessedOrder(getID(aBuy), getID(orders[k + 1]), amountFilled)
         IN  IF buyAmt - amountFilled = 0
             THEN [orders |-> filled, buyAmt |-> 0, hist |-> emplace(hist, rec),
                   remaining |-> FALSE]
             ELSE proRataFillLoop(aBuy, filled, buyAmt - amountFilled, levelBuy, total,
                                  k + 1, idxNext, emplace(hist, rec))

RECURSIVE proRataLevels(_, _, _, _, _, _)
\* The loop over the price levels from curIndex = cur, indexNextPriceLevel =
\* idx: the vector, the buy amount and the ledger it can leave.
proRataLevels(aBuy, orders, buyAmt, cur, idx, hist) ==
    IF cur >= Len(orders) THEN {[orders |-> orders, buyAmt |-> buyAmt, hist |-> hist]}
    ELSE UNION {
           LET sc == scanNextPriceLevel(orders, cur, idx, cur, garbage)
               r == proRataFillLoop(aBuy, orders, buyAmt, buyAmt,
                                    levelTotal(orders, cur, sc.idx), cur, sc.idx, hist)
           IN  IF r.remaining
               THEN proRataLevels(aBuy, r.orders, r.buyAmt, sc.idx, sc.idx, r.hist)
               ELSE {[orders |-> r.orders, buyAmt |-> r.buyAmt, hist |-> r.hist]}
           : garbage \in GarbagePrices}

RECURSIVE matchOrdersProRata(_, _, _)
\* The results matchOrdersProRata can leave of the given queues and ledger.
matchOrdersProRata(buys, sells, hist) ==
    IF buys = {} \/ sells = {} THEN {PassResult(buys, sells, hist)}
    ELSE UNION {
           IF proRataStops(p[1], p[2]) THEN {PassResult(buys, sells, hist)}
           ELSE UNION {
                  UNION {matchOrdersProRata(
                             (buys \ {p[1]}) \cup readdBuy(p[1], l.buyAmt),
                             c.sells \cup readdSells(l.orders), l.hist)
                         : l \in proRataLevels(p[1], c.orders, getAmount(p[1]), 0, 0, hist)}
                  : c \in proRataCollect(p[1], sells, <<>>)}
           : p \in buyTop(buys) \X sellTop(sells)}

(* --------------------- Orderbook: print functions ---------------------- *)
RECURSIVE printOrderHistoryNewestFirst(_, _)
\* The loop of printOrderHistory reading back() for front().
printOrderHistoryNewestFirst(hist, out) ==
    IF hist = <<>> THEN [out |-> out, hist |-> hist]
    ELSE printOrderHistoryNewestFirst(SubSeq(hist, 1, Len(hist) - 1),
                                      Append(out, hist[Len(hist)]))

RECURSIVE printOrderHistory(_, _)
\* The loop of printOrderHistory: while the queue is not empty, front() is
\* written and popped.  out is what has been written so far.
printOrderHistory(hist, out) ==
    IF hist = <<>> THEN [out |-> out, hist |-> hist]
    ELSE printOrderHistory(Tail(hist), Append(out, Head(hist)))

RECURSIVE sellPopSeqs(_)
\* The sequences in which repeated top()/pop() can empty a sell queue.
sellPopSeqs(q) ==
    IF q = {} THEN {<<>>}
    ELSE UNION {{<<o>> \o t : t \in sellPopSeqs(q \ {o})} : o \in sellTop(q)}

RECURSIVE buyPopSeqs(_)
buyPopSeqs(q) ==
    IF q = {} THEN {<<>>}
    ELSE UNION {{<<o>> \o t : t \in buyPopSeqs(q \ {o})} : o \in buyTop(q)}

\* The std::stack sellOrdersAscending is emptied top first: last pushed first.
Reverse(s) == [n \in 1 .. Len(s) |-> s[Len(s) + 1 - n]]

(* ------------------------------ state ---------------------------------- *)
NoCall == [op |-> "none", order |-> NoOrder, buys |-> {}, sells |-> {}, hist |-> 0]

\* The record of a call of addOrder.
CallAdd(newOrder) == [NoCall EXCEPT !.op = "addOrder", !.order = newOrder]

\* The record of a call of a matching pass: the book it found.
CallMatch(name) ==
    [NoCall EXCEPT !.op = name, !.buys = buyOrders, !.sells = sellOrders,
                   !.hist = Len(m_orderHistory)]

CallPrint(name) == [NoCall EXCEPT !.op = name]

\* The locals of matchOrdersProRata outside their scope.
LocalsIdle ==
    /\ bestBuy = NoOrder
    /\ buyAmount = 0
    /\ matchingOrders = <<>>
    /\ curIndex = 0
    /\ indexNextPriceLevel = 0
    /\ buyOrdersStillRemaining = TRUE
    /\ curTotalSellAmount = 0
    /\ buyAmountBeforeFillingCurPriceLevel = 0
    /\ i = 0

LocalsReset ==
    /\ bestBuy' = NoOrder
    /\ buyAmount' = 0
    /\ matchingOrders' = <<>>
    /\ curIndex' = 0
    /\ indexNextPriceLevel' = 0
    /\ buyOrdersStillRemaining' = TRUE
    /\ curTotalSellAmount' = 0
    /\ buyAmountBeforeFillingCurPriceLevel' = 0
    /\ i' = 0

\* Orderbook::Orderbook: two empty queues, an empty ledger.
Init ==
    /\ buyOrders = {}
    /\ sellOrders = {}
    /\ m_orderHistory = <<>>
    /\ pc = "idle"
    /\ call = NoCall
    /\ admitted = 0
    /\ printed = <<>>
    /\ oobRead = FALSE
    /\ LocalsIdle

(* ----------------------------- addOrder -------------------------------- *)
\* One call addOrder(newOrder).
AddOrderOf(newOrder) ==
    /\ pc = "idle"
    /\ admitted < MaxOrders
    /\ LET q == addOrder(buyOrders, sellOrders, newOrder)
       IN  /\ buyOrders' = q.buys
           /\ sellOrders' = q.sells
    /\ admitted' = admitted + 1
    /\ call' = CallAdd(newOrder)
    /\ printed' = <<>>
    /\ oobRead' = FALSE
    /\ UNCHANGED <<m_orderHistory, pc>>
    /\ UNCHANGED locals

\* readOrderData passes the next record of the feed; the records of a
\* validated feed have a positive price and amount and distinct IDs.
AddOrder ==
    \E isBuy \in BOOLEAN, price \in 1 .. MaxPrice, time \in 1 .. MaxTime,
       amount \in 1 .. MaxQty :
        AddOrderOf(Order(0, admitted + 1, isBuy, price, time, amount))

\* The same with any record std::stof / std::stoi accept: zero and negative
\* amounts included.
AddOrderUnvalidated ==
    \E isBuy \in BOOLEAN, price \in 0 .. MaxPrice, time \in 1 .. MaxTime,
       amount \in -1 .. MaxQty :
        AddOrderOf(Order(0, admitted + 1, isBuy, price, time, amount))

\* The records of a feed that has positive prices and distinct IDs and
\* amounts that are not negative: zero included.
AddOrderNonNegative ==
    \E isBuy \in BOOLEAN, price \in 1 .. MaxPrice, time \in 1 .. MaxTime,
       amount \in 0 .. MaxQty :
        AddOrderOf(Order(0, admitted + 1, isBuy, price, time, amount))

\* The orderID of the k-th record of a feed whose IDs do not all fit 32
\* bits: 1, 2, 2^32 + 1, 2^32 + 2, ... (std::stoll accepts them, m_orderID
\* holds them).
WideID(k) == <<(k - 1) \div 2, ((k - 1) % 2) + 1>>

\* The records of a validated feed with such IDs: distinct, above 2^32.
AddOrderWideID ==
    \E isBuy \in BOOLEAN, price \in 1 .. MaxPrice, time \in 1 .. MaxTime,
       amount \in 1 .. MaxQty :
        AddOrderOf(Order(WideID(admitted + 1)[1], WideID(admitted + 1)[2],
                         isBuy, price, time, amount))

(* --------------------------- matchOrdersFIFO --------------------------- *)
\* Entry of matchOrdersFIFO.
MatchOrdersFIFO ==
    /\ pc = "idle"
    /\ pc' = "fifo"
    /\ call' = CallMatch("matchOrdersFIFO")
    /\ printed' = <<>>
    /\ oobRead' = FALSE
    /\ UNCHANGED <<buyOrders, sellOrders, m_orderHistory, admitted>>
    /\ UNCHANGED locals

\* One evaluation of the while condition and, if it holds, one loop body.
FIFOLoop ==
    /\ pc = "fifo"
    /\ IF buyOrders = {} \/ sellOrders = {}
       THEN /\ pc' = "idle"
            /\ UNCHANGED book
       ELSE \E aBuy \in buyTop(buyOrders), aSell \in sellTop(sellOrders) :
              IF fifoCrosses(aBuy, aSell)
              THEN LET f == fifoFill(aBuy, aSell)
                   IN  /\ buyOrders' = (buyOrders \ {aBuy}) \cup f.pushBuy
                       /\ sellOrders' = (sellOrders \ {aSell}) \cup f.pushSell
                       /\ m_orderHistory' = emplace(m_orderHistory,
                              ProcessedOrder(getID(aBuy), getID(aSell), f.amountFilled))
                       /\ pc' = "fifo"
              ELSE LET f == fifoNoCross(aBuy, aSell)
                   IN  /\ buyOrders' = (buyOrders \ {aBuy}) \cup f.pushBuy
                       /\ sellOrders' = (sellOrders \ {aSell}) \cup f.pushSell
                       /\ UNCHANGED m_orderHistory
                       /\ pc' = "idle"
    /\ UNCHANGED <<call, admitted, printed, oobRead>>
    /\ UNCHANGED locals

(* -------------------------- matchOrdersProRata ------------------------- *)
\* Entry of matchOrdersProRata.
MatchOrdersProRata ==
    /\ pc = "idle"
    /\ pc' = "pr_while"
    /\ call' = CallMatch("matchOrdersProRata")
    /\ printed' = <<>>
    /\ oobRead' = FALSE
    /\ UNCHANGED <<buyOrders, sellOrders, m_orderHistory, admitted>>
    /\ UNCHANGED locals

\* The outer while condition, the price test and the pop of the best buy.
ProRataWhile ==
    /\ pc = "pr_while"
    /\ IF buyOrders = {} \/ sellOrders = {}
       THEN /\ pc' = "idle"
            /\ UNCHANGED <<buyOrders, bestBuy, buyAmount>>
       ELSE \E aBuy \in buyTop(buyOrders), aSell \in sellTop(sellOrders) :
              IF proRataStops(aBuy, aSell)
              THEN /\ pc' = "idle"
                   /\ UNCHANGED <<buyOrders, bestBuy, buyAmount>>
              ELSE /\ bestBuy' = aBuy
                   /\ buyAmount' = getAmount(aBuy)
                   /\ buyOrders' = buyOrders \ {aBuy}
                   /\ pc' = "pr_drain"
    /\ UNCHANGED <<sellOrders, m_orderHistory, call, admitted, printed, oobRead,
                   matchingOrders, curIndex, indexNextPriceLevel,
                   buyOrdersStillRemaining, curTotalSellAmount,
                   buyAmountBeforeFillingCurPriceLevel, i>>

\* One evaluation of the condition of the collecting loop and one loop body.
ProRataDrain ==
    /\ pc = "pr_drain"
    /\ \E aSell \in sellTop(sellOrders) :
         IF proRataMatches(bestBuy, aSell)
         THEN /\ matchingOrders' = Append(matchingOrders, aSell)
              /\ sellOrders' = sellOrders \ {aSell}
              /\ pc' = IF sellOrders' = {} THEN "pr_levels" ELSE "pr_drain"
         ELSE /\ pc' = "pr_levels"
              /\ UNCHANGED <<matchingOrders, sellOrders>>
    /\ UNCHANGED <<buyOrders, m_orderHistory, call, admitted, printed, oobRead,
                   bestBuy, buyAmount, curIndex, indexNextPriceLevel,
                   buyOrdersStillRemaining, curTotalSellAmount,
                   buyAmountBeforeFillingCurPriceLevel, i>>

\* The condition of the loop over the price levels and, if it holds, the
\* scan for the next level and the sum of the current one.
ProRataLevel ==
    /\ pc = "pr_levels"
    /\ IF curIndex < numMatchingSells /\ buyOrdersStillRemaining
       THEN \E garbage \in GarbagePrices :
              LET sc == scanNextPriceLevel(matchingOrders, curIndex,
                                           indexNextPriceLevel, curIndex, garbage)
              IN  /\ indexNextPriceLevel' = sc.idx
                  /\ oobRead' = (oobRead \/ sc.oob)
                  /\ curTotalSellAmount' = levelTotal(matchingOrders, curIndex, sc.idx)
                  /\ buyAmountBeforeFillingCurPriceLevel' = buyAmount
                  /\ i' = curIndex
                  /\ pc' = "pr_fill"
       ELSE /\ pc' = "pr_readd"
            /\ UNCHANGED <<indexNextPriceLevel, oobRead, curTotalSellAmount,
                           buyAmountBeforeFillingCurPriceLevel, i>>
    /\ UNCHANGED <<buyOrders, sellOrders, m_orderHistory, call, admitted, printed,
                   bestBuy, buyAmount, matchingOrders, curIndex,
                   buyOrdersStillRemaining>>

\* One evaluation of the condition of the fill loop and one loop body; when
\* the loop ends, "move on to the next price level".
ProRataFill ==
    /\ pc = "pr_fill"
    /\ IF i < indexNextPriceLevel /\ i >= numMatchingSells
       THEN \* the "out of bounds" branch
            /\ buyOrdersStillRemaining' = FALSE
            /\ curIndex' = indexNextPriceLevel
            /\ pc' = "pr_levels"
            /\ UNCHANGED <<buyAmount, matchingOrders, m_orderHistory, i>>
       ELSE IF i < indexNextPriceLevel /\ curTotalSellAmount = 0
       THEN \* (float)sellAmount / (float)0, and the cast of the result to
            \* int: undefined behaviour; what the program does from here on
            \* is not modelled.
            /\ pc' = "undefined"
            /\ UNCHANGED <<buyAmount, matchingOrders, m_orderHistory, i,
                           buyOrdersStillRemaining, curIndex>>
       ELSE IF i < indexNextPriceLevel
       THEN LET sellAmt == getAmount(matchingOrders[i + 1])
                amountFilled == amountFilledOf(buyAmount, sellAmt,
                                    buyAmountBeforeFillingCurPriceLevel,
                                    curTotalSellAmount)
            IN  /\ buyAmount' = buyAmount - amountFilled
                /\ matchingOrders' = [matchingOrders EXCEPT
                       ![i + 1] = setAmount(@, sellAmt - amountFilled)]
                /\ m_orderHistory' = emplace(m_orderHistory,
                       ProcessedOrder(getID(bestBuy), getID(matchingOrders[i + 1]),
                                      amountFilled))
                /\ IF buyAmount' = 0
                   THEN /\ buyOrdersStillRemaining' = FALSE
                        /\ curIndex' = indexNextPriceLevel
                        /\ pc' = "pr_levels"
                        /\ UNCHANGED i
                   ELSE /\ i' = i + 1
                        /\ pc' = "pr_fill"
                        /\ UNCHANGED <<buyOrdersStillRemaining, curIndex>>
       ELSE /\ curIndex' = indexNextPriceLevel
            /\ pc' = "pr_levels"
            /\ UNCHANGED <<buyAmount, matchingOrders, m_orderHistory, i,
                           buyOrdersStillRemaining>>
    /\ UNCHANGED <<buyOrders, sellOrders, call, admitted, printed, oobRead, bestBuy,
                   indexNextPriceLevel, curTotalSellAmount,
                   buyAmountBeforeFillingCurPriceLevel>>

\* The two re-adding blocks that end the body of the outer loop.
ProRataReadd ==
    /\ pc = "pr_readd"
    /\ sellOrders' = sellOrders \cup readdSells(matchingOrders)
    /\ buyOrders' = buyOrders \cup readdBuy(bestBuy, buyAmount)
    /\ LocalsReset
    /\ pc' = "pr_while"
    /\ UNCHANGED <<m_orderHistory, call, admitted, printed, oobRead>>

(* --------------------------- print functions --------------------------- *)
\* printOrderHistory: every record is written and popped.
PrintOrderHistory ==
    /\ pc = "idle"
    /\ LET r == printOrderHistory(m_orderHistory, <<>>)
       IN  /\ printed' = r.out
           /\ m_orderHistory' = r.hist
    /\ call' = CallPrint("printOrderHistory")
    /\ oobRead' = FALSE
    /\ UNCHANGED <<buyOrders, sellOrders, pc, admitted>>
    /\ UNCHANGED locals

\* printOrderbookContents: the sells are popped onto a stack and written
\* from its top, the buys are written as they are popped.
PrintOrderbookContents ==
    /\ pc = "idle"
    /\ \E sq \in sellPopSeqs(sellOrders), bq \in buyPopSeqs(buyOrders) :
         printed' = Reverse(sq) \o bq
    /\ sellOrders' = {}
    /\ buyOrders' = {}
    /\ call' = CallPrint("printOrderbookContents")
    /\ oobRead' = FALSE
    /\ UNCHANGED <<m_orderHistory, pc, admitted>>
    /\ UNCHANGED locals

(* --------------------------- specifications ---------------------------- *)
\* A step of a matching pass under way.
PassStep ==
    \/ FIFOLoop
    \/ ProRataWhile
    \/ ProRataDrain
    \/ ProRataLevel
    \/ ProRataFill
    \/ ProRataReadd

Next ==
    \/ AddOrder
    \/ MatchOrdersFIFO
    \/ MatchOrdersProRata
    \/ PrintOrderHistory
    \/ PrintOrderbookContents
    \/ FIFOLoop
    \/ ProRataWhile
    \/ ProRataDrain
    \/ ProRataLevel
    \/ ProRataFill
    \/ ProRataReadd

\* The engine fed by a validated feed.
Spec == Init /\ [][Next]_vars

\* The same engine under the scheduling of the program: a matching pass
\* under way runs on (single thread, no suspension point).
FairSpec == Spec /\ WF_vars(PassStep)

\* The engine fed whatever the feed holds; FIFO matching only.
NextUnvalidated ==
    \/ AddOrderUnvalidated
    \/ MatchOrdersFIFO
    \/ FIFOLoop
    \/ PrintOrderHistory
    \/ PrintOrderbookContents

SpecUnvalidated == Init /\ [][NextUnvalidated]_vars

\* The engine fed valid records whose IDs exceed 32 bits; FIFO matching.
NextWideID ==
    \/ AddOrderWideID
    \/ MatchOrdersFIFO
    \/ FIFOLoop
    \/ PrintOrderHistory
    \/ PrintOrderbookContents

SpecWideID == Init /\ [][NextWideID]_vars

\* The engine fed records with amounts of zero; pro-rata matching only.
NextNonNegative ==
    \/ AddOrderNonNegative
    \/ MatchOrdersProRata
    \/ ProRataWhile
    \/ ProRataDrain
    \/ ProRataLevel
    \/ ProRataFill
    \/ ProRataReadd

SpecNonNegative == Init /\ [][NextNonNegative]_vars

\* Books of one buy at the top price and two sells, as three addOrder calls
\* leave them, with quantities large enough for the rounding of the
\* single-precision proportion to show.
InitAlloc ==
    /\ \E buyQty \in 1 .. MaxAllocQty :
         buyOrders = {Order(0, 1, TRUE, MaxPrice, 1, buyQty)}
    /\ \E p1 \in 1 .. MaxPrice, p2 \in 1 .. MaxPrice,
          q1 \in 1 .. MaxAllocQty, q2 \in 1 .. MaxAllocQty :
         /\ sellOrders = {Order(0, 2, FALSE, p1, 1, q1), Order(0, 3, FALSE, p2, 2, q2)}
         /\ call = CallAdd(Order(0, 3, FALSE, p2, 2, q2))
    /\ m_orderHistory = <<>>
    /\ pc = "idle"
    /\ admitted = 3
    /\ printed = <<>>
    /\ oobRead = FALSE
    /\ LocalsIdle

NextAlloc ==
    \/ MatchOrdersProRata
    \/ ProRataWhile
    \/ ProRataDrain
    \/ ProRataLevel
    \/ ProRataFill
    \/ ProRataReadd

SpecAlloc == InitAlloc /\ [][NextAlloc]_vars

\* Books of one buy at a price no sell exceeds and MaxLevelSells sells of
\* one submit time, as addOrder calls leave them: up to MaxPrice + 1 price
\* levels of up to MaxLevelSells sells for one pro-rata pass.
InitLevels ==
    /\ \E buyQty \in 1 .. 2 * MaxLevelSells :
         buyOrders = {Order(0, 1, TRUE, MaxPrice + 1, 1, buyQty)}
    /\ \E prices \in [1 .. MaxLevelSells -> 1 .. MaxPrice + 1],
          amounts \in [1 .. MaxLevelSells -> 1 .. 2] :
         /\ sellOrders = {Order(0, k + 1, FALSE, prices[k], 1, amounts[k]) :
                             k \in 1 .. MaxLevelSells}
         /\ call = CallAdd(Order(0, MaxLevelSells + 1, FALSE, prices[MaxLevelSells], 1,
                                 amounts[MaxLevelSells]))
    /\ m_orderHistory = <<>>
    /\ pc = "idle"
    /\ admitted = MaxLevelSells + 1
    /\ printed = <<>>
    /\ oobRead = FALSE
    /\ LocalsIdle

SpecLevels == InitLevels /\ [][NextAlloc]_vars

\* Books of quantities in the millions, as four addOrder calls leave them:
\* one buy, two sells at the lowest price and one sell at the top price, for
\* one pro-rata pass.
InitLarge ==
    /\ \E buyPrice \in 1 .. MaxPrice, buyQty \in LargeBuyQty .. LargeBuyQty + 2 :
         buyOrders = {Order(0, 1, TRUE, buyPrice, 1, buyQty)}
    /\ \E q1 \in LargeSellQty1 .. LargeSellQty1 + 2,
          q2 \in LargeSellQty2 .. LargeSellQty2 + 2,
          time \in 1 .. MaxTime, q3 \in 1 .. MaxQty :
         /\ sellOrders = {Order(0, 2, FALSE, 1, 1, q1), Order(0, 3, FALSE, 1, 2, q2),
                          Order(0, 4, FALSE, MaxPrice, time, q3)}
         /\ call = CallAdd(Order(0, 4, FALSE, MaxPrice, time, q3))
    /\ m_orderHistory = <<>>
    /\ pc = "idle"
    /\ admitted = 4
    /\ printed = <<>>
    /\ oobRead = FALSE
    /\ LocalsIdle

SpecLarge == InitLarge /\ [][NextAlloc]_vars

\* The same under the scheduling of the program.
FairSpecLarge == SpecLarge /\ WF_vars(PassStep)

(* ======================= properties of the engine ====================== *)
RECURSIVE SumAmounts(_)
SumAmounts(q) ==
    IF q = {} THEN 0
    ELSE LET o == CHOOSE x \in q : TRUE IN o.amount + SumAmounts(q \ {o})

RECURSIVE SumFills(_, _, _)
\* The sum of fillAmount over the ledger records from index n on that name
\* the order o on its side.
SumFills(hist, n, o) ==
    IF n > Len(hist) THEN 0
    ELSE (IF (o.isBuy /\ hist[n].buyID = getID(o)) \/ (~o.isBuy /\ hist[n].sellID = getID(o))
          THEN hist[n].fillAmount ELSE 0) + SumFills(hist, n + 1, o)

\* A matching pass has just returned; call holds the book it found.
PassReturned == pc = "idle" /\ call.op \in {"matchOrdersFIFO", "matchOrdersProRata"}

\* Records appended by the pass called last.
FillsOfPass == Len(m_orderHistory) - call.hist

\* What is left of order o in the queue of its side.
RemainingOf(o) ==
    SumAmounts({x \in (IF o.isBuy THEN buyOrders ELSE sellOrders) : x.orderID = o.orderID})

HighestBuyPrice == CHOOSE p \in {o.price : o \in buyOrders} : \A o \in buyOrders : o.price <= p
LowestSellPrice == CHOOSE p \in {o.price : o \in sellOrders} : \A o \in sellOrders : o.price >= p

\* C1: conservation per order. When a matching pass (FIFO or pro-rata) has
\* returned, for every order resident before the pass, its remaining quantity
\* (0 if it left the book) plus the fills the pass recorded under its ID
\* equals its remaining quantity before the pass.
C1_Conservation ==
    PassReturned =>
        \A o \in call.buys \cup call.sells :
            RemainingOf(o) + SumFills(m_orderHistory, call.hist + 1, o) = o.amount

\* A pro-rata pass that recorded two fills and left a sell partially filled.
C1_Witness ==
    /\ PassReturned
    /\ call.op = "matchOrdersProRata"
    /\ FillsOfPass >= 2
    /\ \E o \in call.sells : RemainingOf(o) > 0 /\ RemainingOf(o) < o.amount

\* C2: FIFO price-time priority. Every record appended by a step of
\* matchOrdersFIFO names a resident buy that no resident buy outranks (none
\* has a higher price, none at its price an earlier time) and a resident sell
\* that no resident sell outranks (none cheaper, none at its price earlier).
C2_FIFOPriority ==
    [][(pc = "fifo" /\ Len(m_orderHistory') = Len(m_orderHistory) + 1) =>
        LET r == m_orderHistory'[Len(m_orderHistory')]
        IN  \E b \in buyOrders, s \in sellOrders :
              /\ getID(b) = r.buyID
              /\ getID(s) = r.sellID
              /\ \A x \in buyOrders :
                    x.price < b.price \/ (x.price = b.price /\ x.time >= b.time)
              /\ \A x \in sellOrders :
                    x.price > s.price \/ (x.price = s.price /\ x.time >= s.time)
       ]_vars

\* A FIFO pass whose book held two buys at one price and different times,
\* and whose first fill went to the earlier of the two.
C2_Witness ==
    /\ call.op = "matchOrdersFIFO"
    /\ FillsOfPass >= 1
    /\ \E b1 \in call.buys, b2 \in call.buys :
          /\ b1.price = b2.price
          /\ b1.time < b2.time
          /\ m_orderHistory[call.hist + 1].buyID = getID(b1)

\* C3: early termination. A step of a matching pass that finds both queues
\* non-empty and the best buy price below the best sell price ends the pass,
\* appends no record and leaves both queues as they were.
C3_EarlyTermination ==
    [][((pc = "fifo" \/ pc = "pr_while")
            /\ buyOrders # {} /\ sellOrders # {}
            /\ HighestBuyPrice < LowestSellPrice) =>
        /\ pc' = "idle"
        /\ buyOrders' = buyOrders
        /\ sellOrders' = sellOrders
        /\ m_orderHistory' = m_orderHistory
       ]_vars

\* A FIFO pass that stopped on a non-crossing pair after it had filled.
C3_Witness ==
    /\ PassReturned
    /\ call.op = "matchOrdersFIFO"
    /\ FillsOfPass >= 1
    /\ buyOrders # {} /\ sellOrders # {}
    /\ HighestBuyPrice < LowestSellPrice

\* C4: after addOrder calls and a completed matching pass, no queue holds an
\* order whose remaining quantity is 0 or less.
C4_NoEmptyResident ==
    PassReturned => \A o \in buyOrders \cup sellOrders : o.amount > 0

\* C5: addOrder rejects an order whose quantity or price is not positive:
\* the call leaves both queues and the ledger unchanged.
C5_RejectsInvalid ==
    [][(call'.op = "addOrder" /\ call' # call
            /\ (call'.order.amount <= 0 \/ call'.order.price <= 0)) =>
        /\ buyOrders' = buyOrders
        /\ sellOrders' = sellOrders
        /\ m_orderHistory' = m_orderHistory
       ]_vars

\* C6: addOrder triggers no matching. A call adds exactly the new order to
\* the queue of its side; the ledger, the other queue and every order that
\* was resident stay as they were, whether or not the new order crosses.
C6_AddOrderNoMatching ==
    [][(call'.op = "addOrder" /\ call' # call) =>
        LET o == call'.order
        IN  /\ o \notin buyOrders \cup sellOrders
            /\ m_orderHistory' = m_orderHistory
            /\ IF o.isBuy
               THEN buyOrders' = buyOrders \cup {o} /\ sellOrders' = sellOrders
               ELSE sellOrders' = sellOrders \cup {o} /\ buyOrders' = buyOrders
       ]_vars

\* addOrder has just admitted a buy that crosses a resident sell.
C6_Witness ==
    /\ call.op = "addOrder"
    /\ call.order.isBuy
    /\ call.order \in buyOrders
    /\ \E s \in sellOrders : s.price <= call.order.price

(* ---- the fill step of matchOrdersProRata, seen from outside ---------- *)
\* A step of the fill loop that records a fill.
FillStep == pc = "pr_fill" /\ Len(m_orderHistory') = Len(m_orderHistory) + 1

\* The amount the step recorded.
StepFill == m_orderHistory'[Len(m_orderHistory')].fillAmount

\* The quantity of the sell the step visits, before the step.
StepSellQty == matchingOrders[i + 1].amount

\* L: the quantity the sells at the price of the visited sell had when the
\* level was entered: what they have now plus what the level has filled.
StepLevelTotal ==
    LET level == {n \in 1 .. Len(matchingOrders) :
                     matchingOrders[n].price = matchingOrders[i + 1].price}
        RECURSIVE Sum(_)
        Sum(ns) == IF ns = {} THEN 0
                   ELSE LET n == CHOOSE x \in ns : TRUE
                        IN  matchingOrders[n].amount + Sum(ns \ {n})
    IN  Sum(level) + (buyAmountBeforeFillingCurPriceLevel - buyAmount)

\* ceil(a / b) for a >= 0, b > 0, in exact arithmetic.
CeilDiv(a, b) == (a + b - 1) \div b

\* C7: pro-rata allocation rule. With B0 the buy quantity at the start of the
\* level, L the level's sell quantity at that point and B the buy quantity
\* still unfilled, each sell visited is filled exactly
\* min(B, sellQty, ceil(B0 * sellQty / L)), and the buy and the sell are both
\* reduced by that amount.
C7_AllocationRule ==
    [][FillStep =>
        LET B0 == buyAmountBeforeFillingCurPriceLevel
            L == StepLevelTotal
            f == Min2(Min2(buyAmount, StepSellQty), CeilDiv(B0 * StepSellQty, L))
        IN  /\ StepFill = f
            /\ buyAmount' = buyAmount - f
            /\ matchingOrders'[i + 1].amount = StepSellQty - f
       ]_vars

HeldIDs ==
    {o.orderID : o \in buyOrders \cup sellOrders}
        \cup {matchingOrders[n].orderID : n \in 1 .. Len(matchingOrders)}
        \cup (IF bestBuy = NoOrder THEN {} ELSE {bestBuy.orderID})

\* C9: termination. Every matching pass returns; no step of a pass brings an
\* order back; every iteration of the outer loop that does not end the pass
\* removes at least one order for good: the buy (fully filled) or every sell
\* collected for it.
C9_Termination ==
    /\ (pc # "idle") ~> (pc = "idle")
    /\ [][pc # "idle" => HeldIDs' \subseteq HeldIDs]_vars
    /\ [][((pc = "fifo" /\ pc' = "fifo") \/ pc = "pr_readd") =>
            (HeldIDs' # HeldIDs /\ HeldIDs' \subseteq HeldIDs)]_vars
    /\ [][pc = "pr_readd" =>
            \/ bestBuy.orderID \notin HeldIDs'
            \/ \A n \in 1 .. Len(matchingOrders) :
                   matchingOrders[n].orderID \notin HeldIDs']_vars

\* A FIFO pass that took two filling iterations and emptied the buy queue.
C9_Witness ==
    /\ PassReturned
    /\ call.op = "matchOrdersFIFO"
    /\ FillsOfPass >= 2
    /\ buyOrders = {}
    /\ sellOrders # {}

\* C10: uncrossed book on return. When a matching pass returns, a queue is
\* empty or the best buy price is below the best sell price: no resident
\* buy has a price at or above the price of a resident sell.
C10_UncrossedOnReturn ==
    PassReturned =>
        /\ buyOrders = {} \/ sellOrders = {} \/ HighestBuyPrice < LowestSellPrice
        /\ \A b \in buyOrders, s \in sellOrders : b.price < s.price

\* A pro-rata pass that filled and returned with orders left on both sides.
C10_Witness ==
    /\ PassReturned
    /\ call.op = "matchOrdersProRata"
    /\ FillsOfPass >= 1
    /\ buyOrders # {}
    /\ sellOrders # {}

(* ------------------------------ reporting ------------------------------ *)
\* C11: printOrderbookContents is a read path. After the call both queues
\* hold the same orders with the same remaining quantities as before it.
C11_SnapshotReadOnly ==
    [][call'.op = "printOrderbookContents" =>
        /\ buyOrders' = buyOrders
        /\ sellOrders' = sellOrders
       ]_vars

\* C12: printOrderHistory writes every record of the ledger once, oldest
\* first, and leaves the ledger empty; a call that follows another call of
\* printOrderHistory directly writes nothing.
C12_DrainOnce ==
    [][call'.op = "printOrderHistory" =>
        /\ printed' = m_orderHistory
        /\ m_orderHistory' = <<>>
        /\ (call.op = "printOrderHistory" => printed' = <<>>)
       ]_vars

\* printOrderHistory has just written two different records and emptied
\* the ledger.
C12_Witness ==
    /\ call.op = "printOrderHistory"
    /\ Len(printed) >= 2
    /\ printed[1] # printed[2]
    /\ m_orderHistory = <<>>

\* s is t or the beginning of t.
IsPrefix(s, t) == Len(s) <= Len(t) /\ SubSeq(t, 1, Len(s)) = s

\* C13: the ledger is append-only between drains. Every step other than
\* printOrderHistory leaves the ledger a prefix of what it becomes; a record
\* is added only by a step of a matching pass, one record per fill, at the
\* end: the records stand in the order in which the fills happened.
C13_AppendOnly ==
    [][call'.op # "printOrderHistory" =>
        /\ IsPrefix(m_orderHistory, m_orderHistory')
        /\ Len(m_orderHistory') <= Len(m_orderHistory) + 1
        /\ (m_orderHistory' # m_orderHistory => pc \in {"fifo", "pr_fill"})
       ]_vars

\* A matching pass that found records of an earlier pass in the ledger has
\* added a record of its own behind them.
C13_Witness ==
    /\ call.op \in {"matchOrdersFIFO", "matchOrdersProRata"}
    /\ call.hist >= 1
    /\ FillsOfPass >= 1
    /\ m_orderHistory[call.hist] # m_orderHistory[call.hist + 1]

(* ------------------------------- fills --------------------------------- *)
\* C14: every record a matching pass appends has a fill amount above 0,
\* whatever addOrder calls came before the pass.
C14_PositiveFills ==
    \A n \in 1 .. Len(m_orderHistory) : m_orderHistory[n].fillAmount > 0

\* The IDs of the orders in a queue.
IDsOf(q) == {o.orderID : o \in q}

\* C15: the FIFO fill step. A step of matchOrdersFIFO that records a fill
\* trades min(buy remaining, sell remaining) between the best buy and the
\* best sell; each of the two is back in its queue with its quantity reduced
\* by the fill if that leaves more than 0 and is gone otherwise; at least one
\* of the two is gone.
C15_FIFOFillStep ==
    [][(pc = "fifo" /\ m_orderHistory' # m_orderHistory) =>
        LET r == m_orderHistory'[Len(m_orderHistory')]
        IN  \E b \in buyOrders, s \in sellOrders :
              /\ getID(b) = r.buyID
              /\ getID(s) = r.sellID
              /\ r.fillAmount = Min2(b.amount, s.amount)
              /\ buyOrders' = (buyOrders \ {b}) \cup
                     (IF b.amount - r.fillAmount > 0
                      THEN {[b EXCEPT !.amount = b.amount - r.fillAmount]} ELSE {})
              /\ sellOrders' = (sellOrders \ {s}) \cup
                     (IF s.amount - r.fillAmount > 0
                      THEN {[s EXCEPT !.amount = s.amount - r.fillAmount]} ELSE {})
              /\ (b.orderID \notin IDsOf(buyOrders') \/ s.orderID \notin IDsOf(sellOrders'))
       ]_vars

\* A FIFO pass of one fill that emptied the sell queue and left the buy
\* resident with its quantity reduced by the fill.
C15_Witness ==
    /\ PassReturned
    /\ call.op = "matchOrdersFIFO"
    /\ FillsOfPass = 1
    /\ sellOrders = {}
    /\ \E b0 \in call.buys, b \in buyOrders :
          /\ b.orderID = b0.orderID
          /\ b.amount > 0
          /\ b.amount = b0.amount - m_orderHistory[Len(m_orderHistory)].fillAmount

(* --------------------------- orders of a pass -------------------------- *)
\* What the fills of the pass called last leave of order o of the book the
\* pass found.
LeftByPass(o) == o.amount - SumFills(m_orderHistory, call.hist + 1, o)

\* C16: no order is lost or duplicated by a matching pass. When a pass has
\* returned, every order it found whose fills leave it a quantity above 0 is
\* resident exactly once, on its side only, and the queues hold no order the
\* pass did not find on that side.
C16_NoLossNoDuplicate ==
    PassReturned =>
        /\ \A o \in call.buys : LeftByPass(o) > 0 =>
              /\ Cardinality({x \in buyOrders : x.orderID = o.orderID}) = 1
              /\ o.orderID \notin IDsOf(sellOrders)
        /\ \A o \in call.sells : LeftByPass(o) > 0 =>
              /\ Cardinality({x \in sellOrders : x.orderID = o.orderID}) = 1
              /\ o.orderID \notin IDsOf(buyOrders)
        /\ IDsOf(buyOrders) \subseteq IDsOf(call.buys)
        /\ IDsOf(sellOrders) \subseteq IDsOf(call.sells)

\* A pro-rata pass whose first buy had a sell within its price collected
\* that the fills never reached: the sell is resident as the pass found it.
C16_Witness ==
    /\ PassReturned
    /\ call.op = "matchOrdersProRata"
    /\ FillsOfPass >= 1
    /\ \E b \in call.buys, s \in call.sells \cap sellOrders :
          /\ getID(b) = m_orderHistory[call.hist + 1].buyID
          /\ s.price <= b.price

(* ---------------------------- printed book ----------------------------- *)
\* C17: printOrderbookContents writes the resident sells in descending order
\* of price and the resident buys in ascending order of price, ties by time.
C17_PrintedBookOrder ==
    call.op = "printOrderbookContents" =>
        \A m \in 1 .. Len(printed), n \in 1 .. Len(printed) :
            m < n =>
                /\ (~printed[m].isBuy /\ ~printed[n].isBuy) =>
                      \/ printed[m].price > printed[n].price
                      \/ (printed[m].price = printed[n].price
                            /\ printed[m].time >= printed[n].time)
                /\ (printed[m].isBuy /\ printed[n].isBuy) =>
                      \/ printed[m].price < printed[n].price
                      \/ (printed[m].price = printed[n].price
                            /\ printed[m].time <= printed[n].time)

(* ------------------------- remaining quantity -------------------------- *)
\* The quantities the engine holds for the order of the given ID: in a
\* queue, in the vector matchingOrders, or, for the buy a pro-rata pass has
\* popped, in the local buyAmount.
HeldAmounts(id) ==
    {o.amount : o \in {x \in buyOrders \cup sellOrders : x.orderID = id}}
        \cup {matchingOrders[n].amount :
                 n \in {x \in 1 .. Len(matchingOrders) : matchingOrders[x].orderID = id}}
        \cup (IF bestBuy # NoOrder /\ bestBuy.orderID = id THEN {buyAmount} ELSE {})

\* The remaining quantity of the order: 0 once the engine holds it no more.
RemainingNow(id) ==
    IF HeldAmounts(id) = {} THEN 0 ELSE CHOOSE a \in HeldAmounts(id) : TRUE

\* C18: the remaining quantity of every admitted order is non-increasing
\* and never below 0: no step raises it, and no step leaves it negative.
C18_MonotoneRemaining ==
    [][/\ \A k \in 1 .. admitted :
             RemainingNow(<<0, k>>)' <= RemainingNow(<<0, k>>)
       /\ \A k \in 1 .. admitted' :
             RemainingNow(<<0, k>>)' >= 0
      ]_vars

(* ----------------------------- tie-breaks ------------------------------ *)
\* What the pass called last has left: the queues and its own records.
ActualResult ==
    PassResult(buyOrders, sellOrders,
               SubSeq(m_orderHistory, call.hist + 1, Len(m_orderHistory)))

\* The results the pass called last can leave of the book it found.
PossibleResults ==
    IF call.op = "matchOrdersFIFO"
    THEN matchOrdersFIFO(call.buys, call.sells, <<>>)
    ELSE matchOrdersProRata(call.buys, call.sells, <<>>)

\* No two orders of the queue have the same price and the same time.
DistinctPriceTime(q) ==
    \A x \in q, y \in q : x # y => (x.price # y.price \/ x.time # y.time)

\* C19 as stated: the fills and the residual book of a matching pass depend
\* on the set of orders admitted only: the book the pass found allows one
\* result, the one the pass left.
C19_OrderIndependent ==
    PassReturned => PossibleResults = {ActualResult}

\* C19 as amended: when no two orders of one side of the book a pass found
\* have the same price and the same time, the book allows one result, the
\* one the pass left.
C19_OrderIndependentDistinct ==
    (PassReturned /\ DistinctPriceTime(call.buys) /\ DistinctPriceTime(call.sells)) =>
        PossibleResults = {ActualResult}

\* A pro-rata pass that filled two sells of one price and different times,
\* on a book without two orders of one side at the same price and time.
C19_Witness ==
    /\ PassReturned
    /\ call.op = "matchOrdersProRata"
    /\ DistinctPriceTime(call.buys)
    /\ DistinctPriceTime(call.sells)
    /\ FillsOfPass >= 2
    /\ \E s1 \in call.sells, s2 \in call.sells :
          /\ s1.price = s2.price
          /\ s1.time < s2.time
          /\ m_orderHistory[call.hist + 1].sellID = getID(s1)
          /\ m_orderHistory[call.hist + 2].sellID = getID(s2)

(* ------------------------- indices of the vector ----------------------- *)
\* C20: every index matchOrdersProRata reads matchingOrders at lies within
\* 0 .. size - 1: the scan for the next price level never reads the element
\* one past the end, and the fill loop never reaches an index past the end.
C20_IndicesInBounds ==
    /\ ~oobRead
    /\ (pc = "pr_fill" /\ i < indexNextPriceLevel) => i < numMatchingSells

(* --------------------------- the level total --------------------------- *)
\* The fill loop is about to compute a proportion: its index is within the
\* level and within the vector.
ComputesProportion ==
    pc = "pr_fill" /\ i < indexNextPriceLevel /\ i < numMatchingSells

\* C21: the level total curTotalSellAmount is above 0 whenever a proportion
\* is computed, after any sequence of addOrder calls and matching passes: no
\* division by a level total of zero.
C21_LevelTotalPositive ==
    ComputesProportion => curTotalSellAmount > 0

(* ----------------------------- price levels ---------------------------- *)
\* The price of the sell at index n (0-based) of the vector.
PriceAt(n) == matchingOrders[n + 1].price

\* C22: price-level grouping. Every range [curIndex, indexNextPriceLevel)
\* the pass processes as a level is a maximal run of one price in the vector
\* matchingOrders; the first starts at index 0, each next one where the one
\* before it ended and at a higher price; the levels go on to the end of the
\* vector unless the buy is filled before.
C22_LevelGrouping ==
    /\ [][(pc = "pr_levels" /\ pc' = "pr_fill") =>
            /\ curIndex = indexNextPriceLevel
            /\ curIndex < indexNextPriceLevel'
            /\ indexNextPriceLevel' <= numMatchingSells
            /\ \A n \in curIndex .. indexNextPriceLevel' - 1 : PriceAt(n) = PriceAt(curIndex)
            /\ (indexNextPriceLevel' < numMatchingSells =>
                    PriceAt(indexNextPriceLevel') > PriceAt(curIndex))
            /\ (curIndex > 0 => PriceAt(curIndex - 1) < PriceAt(curIndex))
            /\ (m_orderHistory = <<>> => curIndex = 0)
          ]_vars
    /\ [][(pc = "pr_fill" /\ pc' = "pr_levels") => curIndex' = indexNextPriceLevel]_vars
    /\ [][(pc = "pr_levels" /\ pc' = "pr_readd") =>
            (curIndex = numMatchingSells \/ buyAmount = 0)]_vars

\* The pass is filling a level of two sells or more that is not the first
\* level of the vector, and the vector goes on behind it.
C22_Witness ==
    /\ pc = "pr_fill"
    /\ curIndex > 0
    /\ indexNextPriceLevel - curIndex >= 2
    /\ indexNextPriceLevel < numMatchingSells

(* -------------------------- the sells collected ------------------------ *)
\* The sells in the vector matchingOrders.
Collected == {matchingOrders[n] : n \in 1 .. Len(matchingOrders)}

\* C23: for each best buy of matchOrdersProRata the sells collected in the
\* vector are exactly the resident sells priced at or below the buy; every
\* sell priced above the buy stays in the sell queue, unchanged, while the
\* buy is processed, and no record of a fill of the buy names it.
C23_CollectsCrossingSells ==
    /\ [][(pc = "pr_drain" /\ pc' = "pr_levels") =>
            LET resident == sellOrders' \cup {matchingOrders'[n] :
                                                n \in 1 .. Len(matchingOrders')}
            IN  /\ {matchingOrders'[n] : n \in 1 .. Len(matchingOrders')}
                      = {s \in resident : s.price <= bestBuy.price}
                /\ sellOrders' = {s \in resident : s.price > bestBuy.price}
                /\ Len(matchingOrders') + Cardinality(sellOrders') = Cardinality(resident)
          ]_vars
    /\ [][pc = "pr_drain" => sellOrders' \cup {matchingOrders'[n] :
                                                  n \in 1 .. Len(matchingOrders')}
                                = sellOrders \cup Collected]_vars
    /\ [][(pc = "pr_levels" \/ pc = "pr_fill") => sellOrders' = sellOrders]_vars
    /\ [][FillStep =>
            LET r == m_orderHistory'[Len(m_orderHistory')]
            IN  /\ r.buyID = getID(bestBuy)
                /\ \E s \in Collected : getID(s) = r.sellID /\ s.price <= bestBuy.price
                /\ \A s \in sellOrders : getID(s) # r.sellID /\ s.price > bestBuy.price
          ]_vars

\* The pass has filled the buy from the sells collected for it while a sell
\* priced above the buy has stayed in the queue.
C23_Witness ==
    /\ pc = "pr_readd"
    /\ Len(matchingOrders) >= 1
    /\ FillsOfPass >= 1
    /\ \E s \in sellOrders : s.price > bestBuy.price /\ s \in call.sells

(* ------------------------------ order IDs ------------------------------ *)
\* C24: the buyID and sellID of every record are the orderIDs of the buy and
\* the sell that traded, for every 64-bit orderID; two orders with distinct
\* orderIDs never give the same ID in the ledger.
C24_LedgerIDs ==
    /\ [][(pc = "fifo" /\ Len(m_orderHistory') = Len(m_orderHistory) + 1) =>
            LET r == m_orderHistory'[Len(m_orderHistory')]
            IN  \E b \in buyOrders \ buyOrders', s \in sellOrders \ sellOrders' :
                  /\ b.orderID = <<0, r.buyID>>
                  /\ s.orderID = <<0, r.sellID>>
          ]_vars
    /\ [](\A o1 \in buyOrders \cup sellOrders, o2 \in buyOrders \cup sellOrders :
             o1.orderID # o2.orderID => getID(o1) # getID(o2))

(* --------------------------- prices of a fill -------------------------- *)
\* The buys and the sells the engine holds: in a queue or in a local of the
\* pro-rata pass.
HeldBuys == buyOrders \cup (IF bestBuy = NoOrder THEN {} ELSE {bestBuy})
HeldSells == sellOrders \cup Collected

\* C25: no trade-through. Every record a matching pass appends names a buy
\* and a sell the engine held, and the price of the buy is at or above the
\* price of the sell.
C25_NoTradeThrough ==
    [][Len(m_orderHistory') = Len(m_orderHistory) + 1 =>
        LET r == m_orderHistory'[Len(m_orderHistory')]
        IN  /\ \E b \in HeldBuys : getID(b) = r.buyID
            /\ \E s \in HeldSells : getID(s) = r.sellID
            /\ \A b \in HeldBuys, s \in HeldSells :
                  (getID(b) = r.buyID /\ getID(s) = r.sellID) => b.price >= s.price
       ]_vars

\* A pass has filled a buy from a sell priced below the buy.
C25_Witness ==
    /\ PassReturned
    /\ FillsOfPass >= 1
    /\ \E b \in call.buys, s \in call.sells :
          /\ getID(b) = m_orderHistory[Len(m_orderHistory)].buyID
          /\ getID(s) = m_orderHistory[Len(m_orderHistory)].sellID
          /\ b.price > s.price

(* ---------------------- price priority across levels ------------------- *)
\* C26: when the processing of a price level ends, the buy is filled
\* completely or every sell of the level is; the buy receives no fill from a
\* sell while a sell of the vector at a lower price has quantity left.
C26_LevelPriority ==
    /\ [][(pc = "pr_fill" /\ pc' = "pr_levels") =>
            \/ buyAmount' = 0
            \/ \A n \in curIndex .. indexNextPriceLevel - 1 :
                   matchingOrders'[n + 1].amount = 0
          ]_vars
    /\ [][FillStep =>
            \A n \in 0 .. numMatchingSells - 1 :
                PriceAt(n) < PriceAt(i) => matchingOrders[n + 1].amount = 0
          ]_vars

(* ----------------------- the two algorithms compared ------------------- *)
RECURSIVE SumRecords(_, _)
\* The sum of fillAmount over the records of hist from index n on.
SumRecords(hist, n) ==
    IF n > Len(hist) THEN 0 ELSE hist[n].fillAmount + SumRecords(hist, n + 1)

\* The quantity the orders of queue q at price p have left.
LeftAtPrice(q, p) == SumAmounts({o \in q : o.price = p})

\* The prices of the orders of a book.
PricesOf(buys, sells) == {o.price : o \in buys \cup sells}

\* C27: FIFO and pro-rata agree in aggregate. From the same book of orders
\* with positive quantities, matchOrdersFIFO and matchOrdersProRata record
\* the same total filled quantity and leave the same total quantity at every
\* price on the buy side and at every price on the sell side.
C27_AggregateAgreement ==
    (pc = "idle" /\ call.op = "addOrder") =>
        \A rf \in matchOrdersFIFO(buyOrders, sellOrders, <<>>),
           rp \in matchOrdersProRata(buyOrders, sellOrders, <<>>) :
            /\ SumRecords(rf.hist, 1) = SumRecords(rp.hist, 1)
            /\ \A p \in PricesOf(buyOrders, sellOrders) :
                  /\ LeftAtPrice(rf.buys, p) = LeftAtPrice(rp.buys, p)
                  /\ LeftAtPrice(rf.sells, p) = LeftAtPrice(rp.sells, p)

(* ------------------------------ idempotence ---------------------------- *)
\* C28: matching is idempotent. On the book a completed pass of either
\* algorithm leaves, matchOrdersFIFO and matchOrdersProRata, called with no
\* addOrder in between, append no record and leave both queues as they are:
\* the first evaluation of either loop ends the pass, FIFO pushing back the
\* two orders it popped.
C28_Idempotent ==
    PassReturned =>
        /\ matchOrdersFIFO(buyOrders, sellOrders, m_orderHistory)
               = {PassResult(buyOrders, sellOrders, m_orderHistory)}
        /\ matchOrdersProRata(buyOrders, sellOrders, m_orderHistory)
               = {PassResult(buyOrders, sellOrders, m_orderHistory)}
        /\ (buyOrders # {} /\ sellOrders # {}) =>
               \A aBuy \in buyTop(buyOrders), aSell \in sellTop(sellOrders) :
                   /\ ~fifoCrosses(aBuy, aSell)
                   /\ fifoNoCross(aBuy, aSell).pushBuy = {aBuy}
                   /\ fifoNoCross(aBuy, aSell).pushSell = {aSell}
                   /\ proRataStops(aBuy, aSell)

\* A FIFO pass that filled and returned with orders left on both sides and
\* a ledger to which a second pass could append.
C28_Witness ==
    /\ PassReturned
    /\ call.op = "matchOrdersFIFO"
    /\ FillsOfPass >= 1
    /\ Cardinality(buyOrders) >= 1
    /\ Cardinality(sellOrders) >= 1
    /\ m_orderHistory # <<>>

====
